---- MODULE Spec2Model ----
(***************************************************************************)
(* ThreeStepOptimizer (src/modules/three_step_optimizer.py): Step 1 binary *)
(* coverage MILP, Step 2 one-unit greedy pass, Step 3 residual greedy      *)
(* pass, and the orchestration of optimize_three_step (Spec).               *)
(* SKUClassifier.classify_skus (SpecClassify), the tiers and capacities of *)
(* StoreTierSystem (SpecTierSystem) and the tier lookups by store id       *)
(* (SpecTierLookup) are specifications of their own over the same inputs.  *)
(*                                                                         *)
(* Python dicts are functions whose DOMAIN is the key set.  Scores are     *)
(* exact rationals: every score of one run is kept as its numerator over   *)
(* the common denominator AlphaDen * RandDen * (qmax - qmin).              *)
(***************************************************************************)
EXTENDS Integers, Sequences, FiniteSets, TLC

\* ---------------------------------------------------------------- bounds
NumStores == 2
NumSKUs == 3
MaxSupply == 3
MaxCap == 2
MaxQ == 1
\* priority_temperature is counted in AlphaDen-ths: the scenarios of config.py
\* are 0.0, 0.5 and 1.0
AlphaDen == 2
\* random.random() ranges over 0/RandDen .. (RandDen-1)/RandDen
RandDen == 2
\* SKUClassifier is run on the SKUs of a 2 x 2 colour/size grid
NumGridSKUs == 4
\* StoreTierSystem ranks up to NumRankedStores stores
NumRankedStores == 10
\* the tier lookups are made over up to NumLookupStores ranked stores
NumLookupStores == 5
\* candidate solutions of the Step 1 model are enumerated with all their
\* variables for up to NumModelStores target stores
NumModelStores == 1
\* calls of optimize_three_step on one instance, and the sizes of the inputs
\* of those calls
NumCalls == 2
NumReuseSKUs == 2
NumReuseStores == 1
\* GreedyAllocator is run on up to NumGreedySKUs SKUs and NumGreedyStores
\* ranked stores (three stores give one store per tier)
NumGreedySKUs == 3
NumGreedyStores == 3
\* set_sku_target_stores designates stores for SKUs 1 .. NumDesignatedSKUs
NumDesignatedSKUs == 1

\* LpProblem.status after solve(): the code tests for 1 (optimal); PuLP's other
\* codes are 0 not solved (also a time limit), -1 infeasible, -2 unbounded,
\* -3 undefined
LpStatusOptimal == 1
LpStatusNotSolved == LpStatusOptimal - 1
LpStatusInfeasible == LpStatusOptimal - 2
LpStatusUnbounded == LpStatusOptimal - 3
LpStatusUndefined == LpStatusOptimal - 4
LpStatuses ==
  {LpStatusOptimal, LpStatusNotSolved, LpStatusInfeasible,
   LpStatusUnbounded, LpStatusUndefined}

\* absent key of store_allocation_limits
NoEntry == 0 - 1
\* a result not produced yet (unbound local)
NoResult == [status |-> "none"]

\* COLOR_CD / SIZE_CD of a SKU in df_sku_filtered: SKUs are laid out on a
\* two-column colour/size grid (1: c1/s1, 2: c2/s1, 3: c1/s2, ...)
ColorOf(i) == ((i - 1) % 2) + 1
SizeOf(i) == ((i - 1) \div 2) + 1

\* ---------------------------------------------------------------- dicts
EmptyDict == [k \in {} |-> 0]

\* dict.get(key, 0)
Get(d, k) == IF k \in DOMAIN d THEN d[k] ELSE 0

\* d[key] = v
Put(d, k, v) == [x \in (DOMAIN d) \cup {k} |-> IF x = k THEN v ELSE d[x]]

Range(s) == {s[n] : n \in DOMAIN s}

RECURSIVE SumOver(_, _)
SumOver(f, S) ==
  IF S = {} THEN 0
  ELSE LET x == CHOOSE y \in S : TRUE IN f[x] + SumOver(f, S \ {x})

\* variant: the pairs are counted, not their units
TotalPairs(d) == Cardinality(DOMAIN d)

\* sum(d.values())
Total(d) == SumOver(d, DOMAIN d)

\* sum(final_allocation.get((i, j), 0) for j in target_stores)
RECURSIVE AllocatedQuantity(_, _, _)
AllocatedQuantity(alloc, i, ts) ==
  IF ts = <<>> THEN 0
  ELSE Get(alloc, <<i, Head(ts)>>) + AllocatedQuantity(alloc, i, Tail(ts))

Min(a, b) == IF a < b THEN a ELSE b
Max(a, b) == IF a > b THEN a ELSE b

VARIABLES
  \* inputs of optimize_three_step
  SKUs, target_stores, A, QSUM, store_allocation_limits, priority_temperature,
  \* instance fields
  final_allocation, step1_allocation, allocation_after_step2,
  allocation_after_step3, step2_additional_allocation,
  step3_additional_allocation,
  \* optimize_three_step's position and locals
  pc, solver_status, selected_combinations, step1_result, step2_result,
  step3_result, result, weights2, weights3, calls_left,
  \* SKUClassifier: the local basic_scarce, the instance's two lists, and
  \* whether classify_skus has returned
  basic_scarce, scarce_skus, abundant_skus, classifier_pc,
  \* StoreTierSystem: the tier_counts of create_store_allocation_limits and
  \* whether it has returned, the sku_target_stores field, and the outcome
  \* of the last tier lookup
  tier_counts, tier_pc, sku_target_stores, lookup,
  \* a candidate solution of the Step 1 model besides b: the indicator and
  \* coverage variables, and whether it satisfies the constraints
  color_binary, size_binary, color_coverage, size_coverage, step1_feasible,
  \* GreedyAllocator: the Step 1 marks it is given, its current_supply field
  \* and the phase allocate has completed
  b_hat, current_supply, greedy_pc

inputs == <<SKUs, target_stores, A, QSUM, store_allocation_limits,
            priority_temperature>>
fields == <<final_allocation, step1_allocation, allocation_after_step2,
            allocation_after_step3, step2_additional_allocation,
            step3_additional_allocation>>
locals == <<pc, solver_status, selected_combinations, step1_result,
            step2_result, step3_result, result, weights2, weights3>>
classifier == <<basic_scarce, scarce_skus, abundant_skus, classifier_pc>>
tiers == <<tier_counts, tier_pc, sku_target_stores, lookup>>
milp == <<color_binary, size_binary, color_coverage, size_coverage,
          step1_feasible>>
greedy == <<b_hat, current_supply, greedy_pc>>
vars == <<inputs, fields, locals, calls_left, classifier, tiers, milp,
          greedy>>

\* ------------------------------------------------------------ Step 1 MILP
TargetSet(ts) == Range(ts)

\* the binary variables b[i][j] that are LpVariables: target stores only
BinaryVariables(skus, ts) == skus \X TargetSet(ts)

\* color_sku_groups / size_sku_groups keys
Colors(skus) == {ColorOf(i) : i \in skus}
Sizes(skus) == {SizeOf(i) : i \in skus}

\* color_binary of colour c at store j: the two linking constraints
\*   color_allocation >= color_binary, color_allocation <= len * color_binary
\* leave exactly one value
ColorBinary(b, skus, c, j) ==
  IF \E i \in skus : ColorOf(i) = c /\ <<i, j>> \in b THEN 1 ELSE 0
SizeBinary(b, skus, z, j) ==
  IF \E i \in skus : SizeOf(i) = z /\ <<i, j>> \in b THEN 1 ELSE 0

\* color_coverage[(s,j)] == lpSum(color_binaries)
ColorCoverage(b, skus, j) ==
  Cardinality({c \in Colors(skus) : ColorBinary(b, skus, c, j) = 1})
SizeCoverage(b, skus, j) ==
  Cardinality({z \in Sizes(skus) : SizeBinary(b, skus, z, j) = 1})

\* sku_allocation <= data['A'][i]: the only constraint on b besides coverage
SupplyConstraint(b, skus, ts, a) ==
  \A i \in skus : Cardinality({j \in TargetSet(ts) : <<i, j>> \in b}) <= a[i]

Step1Constraints(b, skus, ts, a) == SupplyConstraint(b, skus, ts, a)

\* normalized_coverage_sum, scaled by total_colors * total_sizes
\* (color_weight = 1/total_colors, size_weight = 1/total_sizes, 1.0 when 0)
RECURSIVE CoverageObjective(_, _, _)
CoverageObjective(b, skus, ts) ==
  IF ts = <<>> THEN 0
  ELSE ColorCoverage(b, skus, Head(ts)) * Max(1, Cardinality(Sizes(skus)))
       + SizeCoverage(b, skus, Head(ts)) * Max(1, Cardinality(Colors(skus)))
       + CoverageObjective(b, skus, Tail(ts))

FeasibleSet(skus, ts, a) ==
  {b \in SUBSET BinaryVariables(skus, ts) : Step1Constraints(b, skus, ts, a)}

\* what an optimal status certifies: a feasible b of maximal objective
OptimalSet(skus, ts, a) ==
  LET F == FeasibleSet(skus, ts, a)
      values == {CoverageObjective(c, skus, ts) : c \in F}
      best == CHOOSE v \in values : \A u \in values : u <= v
  IN {b \in F : CoverageObjective(b, skus, ts) = best}

\* variant: the mark is written as a quantity of 2
Step1AllocationDouble(b) == [k \in b |-> 2]

\* step1_allocation[(i, j)] = 1 for every selected combination
Step1Allocation(b) == [k \in b |-> 1]

\* -------------------------------------------------------- store priorities
\* alpha = max(0.0, min(1.0, float(priority_temperature))), in AlphaDen-ths
ClampAlpha(t) == Max(0, Min(AlphaDen, t))

RECURSIVE SeqMin(_)
SeqMin(s) == IF Len(s) = 1 THEN s[1] ELSE Min(s[1], SeqMin(Tail(s)))
RECURSIVE SeqMax(_)
SeqMax(s) == IF Len(s) = 1 THEN s[1] ELSE Max(s[1], SeqMax(Tail(s)))

QVals(ts, q) == [n \in DOMAIN ts |-> q[ts[n]]]

\* min(q_vals) / max(q_vals) raise ValueError on an empty list
WeightsRaise(ts) == ts = <<>>

\* denominator of w: qmax - qmin, or 1 when all volumes tie
WDen(ts, q) ==
  LET qv == QVals(ts, q) IN
  IF SeqMax(qv) > SeqMin(qv) THEN SeqMax(qv) - SeqMin(qv) ELSE 1

\* variant: w is normalised from the top, (qmax - q[j]) / (qmax - qmin)
WNumFromMax(ts, q, j) ==
  LET qv == QVals(ts, q) IN
  IF SeqMax(qv) > SeqMin(qv) THEN SeqMax(qv) - q[j] ELSE 1

\* numerator of w[j] over WDen
WNum(ts, q, j) ==
  LET qv == QVals(ts, q) IN
  IF SeqMax(qv) > SeqMin(qv) THEN q[j] - SeqMin(qv) ELSE 1

\* variant: the random term is not scaled by alpha, s[j] = (1-alpha)*w + r
MixedScoreUnscaledRandom(alpha, wnum, wden, rnum) ==
  (AlphaDen - alpha) * wnum * RandDen + AlphaDen * rnum * wden

\* s[j] = (1-alpha)*w[j] + alpha*r[j], as numerator over AlphaDen*RandDen*WDen
MixedScore(alpha, wnum, wden, rnum) ==
  (AlphaDen - alpha) * wnum * RandDen + alpha * rnum * wden

\* _compute_mixed_weights with the random draws r (numerators over RandDen)
ComputeMixedWeights(ts, q, alpha, r) ==
  [j \in TargetSet(ts) |->
     MixedScore(alpha, WNum(ts, q, j), WDen(ts, q), r[j])]

CalculateStorePriorities(ts, q, t, r) ==
  ComputeMixedWeights(ts, q, ClampAlpha(t), r)

\* the values random.random() can return for every target store
RandomDraws(ts) == [TargetSet(ts) -> 0 .. (RandDen - 1)]

\* list.sort(key=score, reverse=True): stable, descending
RECURSIVE InsertDesc(_, _, _)
InsertDesc(sorted, j, w) ==
  IF sorted = <<>> THEN <<j>>
  ELSE IF Get(w, Head(sorted)) >= Get(w, j)
       THEN <<Head(sorted)>> \o InsertDesc(Tail(sorted), j, w)
       ELSE <<j>> \o sorted

RECURSIVE SortDesc(_, _)
SortDesc(s, w) ==
  IF s = <<>> THEN <<>>
  ELSE InsertDesc(SortDesc(SubSeq(s, 1, Len(s) - 1), w), s[Len(s)], w)

\* store_allocation_limits.get(j, 0)
LimitOf(limits, j) == IF limits[j] = NoEntry THEN 0 ELSE limits[j]

\* ------------------------------------------------------------------ Step 2
\* variant: Step 2 starts from an empty allocation
Step2InitialEmpty(step1_alloc) == EmptyDict

\* self.final_allocation = step1_allocation.copy()
Step2Initial(step1_alloc) == step1_alloc

\* variant: every target store is a candidate for one more unit
UnfilledStoresAll(alloc, i, ts) == ts

\* stores with (i, j) not in final_allocation or final_allocation[(i, j)] == 0
UnfilledStores(alloc, i, ts) ==
  SelectSeq(ts, LAMBDA j : Get(alloc, <<i, j>>) = 0)

\* variant: the units already placed are not subtracted
RemainingQuantityWholeSupply(a, alloc, i, ts) == a[i]

\* remaining_quantity = data['A'][i] - allocated_quantity
RemainingQuantity(a, alloc, i, ts) == a[i] - AllocatedQuantity(alloc, i, ts)

\* variant: a store is skipped when one more unit would reach its limit
AtStoreLimitNextUnit(current_qty, max_qty_per_sku) ==
  current_qty + 1 >= max_qty_per_sku

\* if current_qty >= max_qty_per_sku: continue
AtStoreLimit(current_qty, max_qty_per_sku) == current_qty >= max_qty_per_sku

\* the "for j, weight in weighted_stores" loop of Step 2; n is
\* allocated_this_sku.  Returns the allocation and the units placed.
RECURSIVE Step2Inner(_, _, _, _, _, _)
Step2Inner(alloc, i, ws, n, remaining, limits) ==
  IF ws = <<>> \/ n >= remaining
  THEN [allocation |-> alloc, added |-> n]
  ELSE LET j == Head(ws) IN
       IF AtStoreLimit(Get(alloc, <<i, j>>), LimitOf(limits, j))
       THEN Step2Inner(alloc, i, Tail(ws), n, remaining, limits)
       ELSE Step2Inner(Put(alloc, <<i, j>>, Get(alloc, <<i, j>>) + 1),
                       i, Tail(ws), n + 1, remaining, limits)

\* one iteration of "for i in SKUs" of Step 2
Step2SKU(alloc, i, ts, a, limits, w) ==
  LET unfilled == UnfilledStores(alloc, i, ts)
      remaining == RemainingQuantity(a, alloc, i, ts)
  IN IF unfilled = <<>> \/ remaining <= 0
     THEN [allocation |-> alloc, added |-> 0]
     ELSE Step2Inner(alloc, i, SortDesc(unfilled, w), 0, remaining, limits)

\* "for i in SKUs" of Step 2, SKUs 1 .. k in order; total is total_additional
RECURSIVE Step2Loop(_, _, _, _, _, _, _, _)
Step2Loop(alloc, total, i, k, ts, a, limits, w) ==
  IF i > k THEN [allocation |-> alloc, added |-> total]
  ELSE LET r == Step2SKU(alloc, i, ts, a, limits, w) IN
       Step2Loop(r.allocation, total + r.added, i + 1, k, ts, a, limits, w)

\* ------------------------------------------------------------------ Step 3
\* variant: Step 3 starts from an empty allocation
Step3InitialEmpty(step2_alloc) == EmptyDict

\* self.final_allocation = step2_allocation.copy()
Step3Initial(step2_alloc) == step2_alloc

\* stores with current_qty < max_qty_per_sku
EligibleStores(alloc, i, ts, limits) ==
  SelectSeq(ts, LAMBDA j : Get(alloc, <<i, j>>) < LimitOf(limits, j))

\* variant: the store takes the whole remaining supply
AllocateQuantityWholeRemainder(remaining_quantity, available_capacity) ==
  remaining_quantity

\* allocate_quantity = min(remaining_quantity, available_capacity)
AllocateQuantity(remaining_quantity, available_capacity) ==
  Min(remaining_quantity, available_capacity)

\* the "for j, weight in weighted_stores" loop of Step 3
RECURSIVE Step3Inner(_, _, _, _, _, _)
Step3Inner(alloc, i, ws, remaining, total, limits) ==
  IF ws = <<>> \/ remaining <= 0
  THEN [allocation |-> alloc, added |-> total]
  ELSE LET j == Head(ws)
           current_qty == Get(alloc, <<i, j>>)
           available_capacity == LimitOf(limits, j) - current_qty
           q == AllocateQuantity(remaining, available_capacity)
       IN IF available_capacity <= 0
          THEN Step3Inner(alloc, i, Tail(ws), remaining, total, limits)
          ELSE Step3Inner(Put(alloc, <<i, j>>, current_qty + q),
                          i, Tail(ws), remaining - q, total + q, limits)

\* one iteration of "for i in SKUs" of Step 3
Step3SKU(alloc, i, ts, a, limits, w) ==
  LET remaining == RemainingQuantity(a, alloc, i, ts)
      eligible == EligibleStores(alloc, i, ts, limits)
  IN IF remaining <= 0 \/ eligible = <<>>
     THEN [allocation |-> alloc, added |-> 0]
     ELSE Step3Inner(alloc, i, SortDesc(eligible, w), remaining, 0, limits)

RECURSIVE Step3Loop(_, _, _, _, _, _, _, _)
Step3Loop(alloc, total, i, k, ts, a, limits, w) ==
  IF i > k THEN [allocation |-> alloc, added |-> total]
  ELSE LET r == Step3SKU(alloc, i, ts, a, limits, w) IN
       Step3Loop(r.allocation, total + r.added, i + 1, k, ts, a, limits, w)

\* --------------------------------------------------------------- the inputs
\* target_stores lists distinct stores; store ids are interchangeable, so the
\* list is taken in id order (the order matters only through sort stability)
TargetStoreLists == {[n \in 1 .. m |-> n] : m \in 0 .. NumStores}
SKULists == {1 .. k : k \in 0 .. NumSKUs}
Temperatures == 0 .. AlphaDen

TypeInputs ==
  /\ SKUs \in SKULists
  /\ target_stores \in TargetStoreLists
  /\ A \in [SKUs -> 0 .. MaxSupply]
  /\ QSUM \in [TargetSet(target_stores) -> 0 .. MaxQ]
  /\ priority_temperature \in Temperatures

\* ThreeStepOptimizer.__init__
InitFields ==
  /\ final_allocation = EmptyDict
  /\ step1_allocation = EmptyDict
  /\ allocation_after_step2 = EmptyDict
  /\ allocation_after_step3 = EmptyDict
  /\ step2_additional_allocation = 0
  /\ step3_additional_allocation = 0

InitLocals ==
  /\ pc = "INIT"
  /\ solver_status = LpStatusNotSolved
  /\ selected_combinations = {}
  /\ step1_result = NoResult
  /\ step2_result = NoResult
  /\ step3_result = NoResult
  /\ result = NoResult
  /\ weights2 = EmptyDict
  /\ weights3 = EmptyDict

\* SKUClassifier.__init__
InitClassifier ==
  /\ basic_scarce = <<>>
  /\ scarce_skus = <<>>
  /\ abundant_skus = <<>>
  /\ classifier_pc = "NEW"

\* the outcome of a tier lookup before any lookup was made
NoLookup == [op |-> "none"]

\* StoreTierSystem.__init__
InitTiers ==
  /\ tier_counts = EmptyDict
  /\ tier_pc = "NEW"
  /\ sku_target_stores = EmptyDict
  /\ lookup = NoLookup

\* no candidate solution of the Step 1 model is under test
InitMilp ==
  /\ color_binary = EmptyDict
  /\ size_binary = EmptyDict
  /\ color_coverage = EmptyDict
  /\ size_coverage = EmptyDict
  /\ step1_feasible = "UNTESTED"

\* GreedyAllocator.__init__
InitGreedy ==
  /\ b_hat = {}
  /\ current_supply = EmptyDict
  /\ greedy_pc = "NEW"

\* one run of the pipeline on a fresh instance; every target store has an
\* entry in the capacity table, as create_store_allocation_limits builds it
Init ==
  /\ TypeInputs
  /\ store_allocation_limits \in [TargetSet(target_stores) -> 0 .. MaxCap]
  /\ InitFields
  /\ InitLocals
  /\ calls_left = 1
  /\ InitClassifier
  /\ InitTiers
  /\ InitMilp
  /\ InitGreedy

Terminal == {"STEP1_FAILED", "STEP2_FAILED", "STEP3_DONE", "RAISED"}

\* ---------------------------------------------------------------- actions
\* optimize_three_step is entered (lines 39-53)
Call ==
  /\ pc \in {"INIT"} \cup Terminal
  /\ calls_left > 0
  /\ calls_left' = calls_left - 1
  /\ pc' = "STEP1_SOLVING"
  /\ solver_status' = LpStatusNotSolved
  /\ selected_combinations' = {}
  /\ step1_result' = NoResult
  /\ step2_result' = NoResult
  /\ step3_result' = NoResult
  /\ result' = NoResult
  /\ weights2' = EmptyDict
  /\ weights3' = EmptyDict
  /\ UNCHANGED <<classifier, tiers, milp, greedy>>
  /\ UNCHANGED <<inputs, fields>>

\* variant: every non-negative status counts as solved
Step1SucceededNonNegative(status) == status >= 0

\* if self.step1_prob.status == 1
Step1Succeeded(status) == status = LpStatusOptimal

\* what optimize_three_step returns when Step 1 ended with solver status st
\* (lines 60-65): the status code is not part of it
Step1FailureResult(st) ==
  [status |-> "failed", step |-> "1", final_allocation |-> EmptyDict]

\* _step1_coverage_optimization and the status test of optimize_three_step
Step1Coverage ==
  /\ pc = "STEP1_SOLVING"
  /\ \E st \in LpStatuses :
       /\ solver_status' = st
       /\ IF Step1Succeeded(st)
          THEN \E b \in OptimalSet(SKUs, target_stores, A) :
                 /\ selected_combinations' = b
                 /\ step1_allocation' = Step1Allocation(b)
                 /\ step1_result' = [status |-> "success",
                                     allocation |-> Step1Allocation(b),
                                     combinations |-> Cardinality(b)]
                 /\ pc' = "STEP1_DONE"
                 /\ UNCHANGED result
          ELSE /\ step1_result' = [status |-> "failed"]
               /\ result' = Step1FailureResult(st)
               /\ pc' = "STEP1_FAILED"
               /\ UNCHANGED <<step1_allocation, selected_combinations>>
  /\ UNCHANGED <<classifier, tiers, milp, greedy>>
  /\ UNCHANGED <<inputs, final_allocation, allocation_after_step2,
                 allocation_after_step3, step2_additional_allocation,
                 step3_additional_allocation, step2_result, step3_result,
                 weights2, weights3, calls_left>>

\* _step2_single_allocation up to the priorities (lines 153-160); the
\* ValueError of min([]) leaves optimize_three_step
Step2Start ==
  /\ pc = "STEP1_DONE"
  /\ final_allocation' = Step2Initial(step1_result.allocation)
  /\ IF WeightsRaise(target_stores)
     THEN /\ pc' = "RAISED"
          /\ UNCHANGED weights2
     ELSE /\ pc' = "STEP2_RUNNING"
          /\ \E r \in RandomDraws(target_stores) :
               weights2' = CalculateStorePriorities(
                             target_stores, QSUM, priority_temperature, r)
  /\ UNCHANGED <<classifier, tiers, milp, greedy>>
  /\ UNCHANGED <<inputs, step1_allocation, allocation_after_step2,
                 allocation_after_step3, step2_additional_allocation,
                 step3_additional_allocation, solver_status, step1_result,
                 step2_result, step3_result, result, weights3, calls_left,
                 selected_combinations>>

\* variant: the snapshot is the very map the later stage writes to
Aliased(snapshot, written) == written

\* dict.copy(): a snapshot taken with copy() is a map of its own, so the
\* later writes to the working map (written) do not reach it
Copied(snapshot, written) == snapshot

\* the SKU loop of _step2_single_allocation and its return (lines 162-222)
Step2Run ==
  /\ pc = "STEP2_RUNNING"
  /\ LET r == Step2Loop(final_allocation, 0, 1, Cardinality(SKUs),
                        target_stores, A, store_allocation_limits, weights2)
     IN /\ final_allocation' = r.allocation
        /\ step2_additional_allocation' = r.added
        /\ allocation_after_step2' = r.allocation
        /\ step1_allocation' = Copied(step1_allocation, r.allocation)
        /\ step2_result' = [status |-> "success",
                            additional_allocation |-> r.added,
                            allocation |-> r.allocation]
  /\ pc' = "STEP2_DONE"
  /\ UNCHANGED <<classifier, tiers, milp, greedy>>
  /\ UNCHANGED <<inputs, allocation_after_step3,
                 step3_additional_allocation, solver_status, step1_result,
                 step3_result, result, weights2, weights3, calls_left,
                 selected_combinations>>

\* the status test of line 74 and _step3_remaining_allocation up to the
\* priorities (lines 227-234)
Step3Start ==
  /\ pc = "STEP2_DONE"
  /\ IF step2_result.status # "success"
     THEN /\ pc' = "STEP2_FAILED"
          /\ result' = [status |-> "failed", step |-> "step2"]
          /\ UNCHANGED <<final_allocation, weights3>>
     ELSE /\ final_allocation' = Step3Initial(step2_result.allocation)
          /\ UNCHANGED result
          /\ IF WeightsRaise(target_stores)
             THEN /\ pc' = "RAISED"
                  /\ UNCHANGED weights3
             ELSE /\ pc' = "STEP3_RUNNING"
                  /\ \E r \in RandomDraws(target_stores) :
                       weights3' = CalculateStorePriorities(
                                     target_stores, QSUM,
                                     priority_temperature, r)
  /\ UNCHANGED <<classifier, tiers, milp, greedy>>
  /\ UNCHANGED <<inputs, step1_allocation, allocation_after_step2,
                 allocation_after_step3, step2_additional_allocation,
                 step3_additional_allocation, solver_status, step1_result,
                 step2_result, step3_result, weights2, calls_left,
                 selected_combinations>>

\* the SKU loop of _step3_remaining_allocation, its return, and
\* _get_optimization_summary (lines 236-300, 459-508)
Step3Run ==
  /\ pc = "STEP3_RUNNING"
  /\ LET r == Step3Loop(final_allocation, 0, 1, Cardinality(SKUs),
                        target_stores, A, store_allocation_limits, weights3)
     IN /\ final_allocation' = r.allocation
        /\ step3_additional_allocation' = r.added
        /\ allocation_after_step3' = r.allocation
        /\ step1_allocation' = Copied(step1_allocation, r.allocation)
        /\ allocation_after_step2' =
             Copied(allocation_after_step2, r.allocation)
        /\ step3_result' = [status |-> "success",
                            additional_allocation |-> r.added,
                            allocation |-> r.allocation]
        /\ result' = [status |-> "success",
                      final_allocation |-> r.allocation,
                      total_allocated |-> Total(r.allocation),
                      step1_combinations |-> step1_result.combinations,
                      step2_additional |-> step2_result.additional_allocation,
                      step3_additional |-> r.added]
  /\ pc' = "STEP3_DONE"
  /\ UNCHANGED <<classifier, tiers, milp, greedy>>
  /\ UNCHANGED <<inputs,
                 step2_additional_allocation, solver_status, step1_result,
                 step2_result, weights2, weights3, calls_left,
                 selected_combinations>>

Next ==
  \/ Call
  \/ Step1Coverage
  \/ Step2Start
  \/ Step2Run
  \/ Step3Start
  \/ Step3Run

Spec == Init /\ [][Next]_vars

\* ----------------------------------------------------------- SKUClassifier
\* the SKUs of a supply map in the order of its keys (ascending ids)
RECURSIVE SeqOf(_)
SeqOf(S) ==
  IF S = {} THEN <<>>
  ELSE LET m == CHOOSE x \in S : \A y \in S : x <= y
       IN <<m>> \o SeqOf(S \ {m})

\* list(a_set): the elements once each, in an order the set decides
ListsOf(S) ==
  {s \in [1 .. Cardinality(S) -> S] : \A x \in S : \E n \in DOMAIN s : s[n] = x}

\* variant: a supply equal to the number of target stores counts as scarce
BasicScarceAtMost(a, skus, num_target_stores) ==
  SelectSeq(skus, LAMBDA sku : a[sku] <= num_target_stores)

\* basic_scarce = [sku for sku, qty in A.items() if qty < num_target_stores]
BasicScarce(a, skus, num_target_stores) ==
  SelectSeq(skus, LAMBDA sku : a[sku] < num_target_stores)

\* (color == related_color and size != related_size) or
\* (color != related_color and size == related_size)
Related(sku, related_sku) ==
  \/ ColorOf(sku) = ColorOf(related_sku) /\ SizeOf(sku) # SizeOf(related_sku)
  \/ ColorOf(sku) # ColorOf(related_sku) /\ SizeOf(sku) = SizeOf(related_sku)

\* variant: the relatives of every scarce SKU are added until none is left
RECURSIVE ExtendedScarceClosed(_, _)
ExtendedScarceClosed(basic, skus) ==
  LET grown == SelectSeq(skus, LAMBDA r :
                 \/ \E n \in DOMAIN basic : basic[n] = r
                 \/ \E n \in DOMAIN basic : Related(basic[n], r))
  IN IF Len(grown) = Len(basic) THEN Range(basic)
     ELSE ExtendedScarceClosed(grown, skus)

\* extended_scarce: basic_scarce and, for each of its SKUs, the related SKUs
ExtendedScarce(basic, skus) ==
  Range(basic)
    \cup {skus[r] : r \in {n \in DOMAIN skus :
                            \E b \in DOMAIN basic : Related(basic[b], skus[n])}}

\* variant: every SKU is listed as abundant
AbundantSkusUnfiltered(skus, scarce) == skus

\* abundant_skus = [sku for sku in SKUs if sku not in self.scarce_skus]
AbundantSkus(skus, scarce) ==
  SelectSeq(skus, LAMBDA sku : \A n \in DOMAIN scarce : scarce[n] # sku)

\* the supply maps and store lists classify_skus is given
GridSKUSets == SUBSET (1 .. NumGridSKUs)

InitClassify ==
  /\ SKUs \in GridSKUSets
  /\ A \in [SKUs -> 0 .. MaxSupply]
  /\ target_stores \in TargetStoreLists
  /\ QSUM = EmptyDict
  /\ store_allocation_limits = EmptyDict
  /\ priority_temperature = 0
  /\ InitFields
  /\ InitLocals
  /\ calls_left = 0
  /\ InitClassifier
  /\ InitTiers
  /\ InitMilp
  /\ InitGreedy

\* classify_skus (lines 16-54)
ClassifySkus ==
  /\ LET skus == SeqOf(SKUs)
         basic == BasicScarce(A, skus, Len(target_stores))
         extended_scarce == ExtendedScarce(basic, skus)
     IN /\ basic_scarce' = basic
        /\ \E order \in ListsOf(extended_scarce) :
             /\ scarce_skus' = order
             /\ abundant_skus' = AbundantSkus(skus, order)
  /\ classifier_pc' = "CLASSIFIED"
  /\ UNCHANGED <<milp, greedy>>
  /\ UNCHANGED <<inputs, fields, locals, calls_left, tiers>>

NextClassify == ClassifySkus

SpecClassify == InitClassify /\ [][NextClassify]_vars

\* --------------------------------------------------------- StoreTierSystem
\* TIER_CONFIG of config.py, the ratios in tenths
TierConfig ==
  [TIER_1_HIGH |-> [ratio |-> 3, max_sku_limit |-> 3],
   TIER_2_MEDIUM |-> [ratio |-> 2, max_sku_limit |-> 2],
   TIER_3_LOW |-> [ratio |-> 5, max_sku_limit |-> 1]]

tier_names == <<"TIER_1_HIGH", "TIER_2_MEDIUM", "TIER_3_LOW">>
tier_ratios == [t \in Range(tier_names) |-> TierConfig[t].ratio]
tier_limits == [t \in Range(tier_names) |-> TierConfig[t].max_sku_limit]

\* variant: an index equal to a threshold still belongs to the tier above
GetStoreTierInclusive(store_index, total_stores) ==
  LET ratio_1 == tier_ratios["TIER_1_HIGH"]
      ratio_2 == tier_ratios["TIER_2_MEDIUM"]
  IN IF 10 * store_index <= total_stores * ratio_1 THEN "TIER_1_HIGH"
     ELSE IF 10 * store_index <= total_stores * (ratio_1 + ratio_2)
          THEN "TIER_2_MEDIUM"
          ELSE "TIER_3_LOW"

\* get_store_tier: store_index < total_stores * ratio, both sides times 10
GetStoreTier(store_index, total_stores) ==
  LET ratio_1 == tier_ratios["TIER_1_HIGH"]
      ratio_2 == tier_ratios["TIER_2_MEDIUM"]
  IN IF 10 * store_index < total_stores * ratio_1 THEN "TIER_1_HIGH"
     ELSE IF 10 * store_index < total_stores * (ratio_1 + ratio_2)
          THEN "TIER_2_MEDIUM"
          ELSE "TIER_3_LOW"

\* stores.index(store_id), counted from 0; the store is in the list
IndexOf(stores, store_id) ==
  (CHOOSE n \in DOMAIN stores :
     stores[n] = store_id /\ \A m \in 1 .. (n - 1) : stores[m] # store_id) - 1

\* get_store_tier_info: the tier record of a listed store, ValueError otherwise
GetStoreTierInfo(store_id, stores) ==
  IF store_id \notin Range(stores)
  THEN [outcome |-> "raised", error |-> "ValueError"]
  ELSE LET tier_name == GetStoreTier(IndexOf(stores, store_id), Len(stores))
       IN [outcome |-> "returned", store_id |-> store_id,
           tier_name |-> tier_name,
           max_sku_limit |-> TierConfig[tier_name].max_sku_limit]

\* self.sku_target_stores.get(sku, default_stores or [])
GetSkuTargetStores(sku) ==
  IF sku \in DOMAIN sku_target_stores THEN sku_target_stores[sku] ELSE <<>>

\* get_store_tier_for_sku of the per-SKU tier system: the counts are
\* int(total_stores * 0.3) and int(total_stores * 0.2)
GetStoreTierForSku(sku, store, q) ==
  LET sku_stores == GetSkuTargetStores(sku) IN
  IF sku_stores = <<>> \/ store \notin Range(sku_stores)
  THEN "TIER_3_LOW"
  ELSE LET sorted_stores == SortDesc(sku_stores, q)
           store_index == IndexOf(sorted_stores, store)
           total_stores == Len(sorted_stores)
           tier1_count == (total_stores * 3) \div 10
           tier2_count == (total_stores * 2) \div 10
       IN IF store_index < tier1_count THEN "TIER_1_HIGH"
          ELSE IF store_index < tier1_count + tier2_count
               THEN "TIER_2_MEDIUM"
               ELSE "TIER_3_LOW"

\* get_store_tier_info_for_sku
GetStoreTierInfoForSku(store_id, sku, q) ==
  LET tier_name == GetStoreTierForSku(sku, store_id, q)
  IN [outcome |-> "returned", store_id |-> store_id, tier_name |-> tier_name,
      max_sku_limit |-> TierConfig[tier_name].max_sku_limit, sku |-> sku]

\* IntegratedOptimizer._get_sku_store_tier_info: the bare except turns the
\* ValueError of get_store_tier_info into a default record
GetSkuStoreTierInfoOfOptimizer(store, stores) ==
  LET info == GetStoreTierInfo(store, stores)
  IN IF info.outcome = "raised"
     THEN [outcome |-> "returned", store_id |-> store,
           tier_name |-> "TIER_3_LOW", max_sku_limit |-> 1]
     ELSE info

\* IntegratedOptimizer._get_sku_target_stores
SkuTargetStoresOrDefault(sku, default_target_stores) ==
  IF GetSkuTargetStores(sku) # <<>> THEN GetSkuTargetStores(sku)
  ELSE default_target_stores

Reverse(s) == [n \in 1 .. Len(s) |-> s[Len(s) + 1 - n]]

\* the stores of the data loader: up to NumRankedStores, sorted by QTY_SUM
\* descending
RankedStoreLists == {[n \in 1 .. m |-> n] : m \in 0 .. NumRankedStores}

InitTierSystem ==
  /\ target_stores \in RankedStoreLists
  /\ QSUM \in [TargetSet(target_stores) -> 0 .. MaxQ]
  /\ \A a, b \in TargetSet(target_stores) : a < b => QSUM[a] >= QSUM[b]
  /\ store_allocation_limits = EmptyDict
  /\ SKUs = {}
  /\ A = EmptyDict
  /\ priority_temperature = 0
  /\ InitFields
  /\ InitLocals
  /\ calls_left = 0
  /\ InitClassifier
  /\ InitTiers
  /\ InitMilp
  /\ InitGreedy

\* the store ids a caller may ask about: the ranked stores and one more
LookupStores == 1 .. (Len(target_stores) + 1)
LookupSKUs == 1 .. (NumDesignatedSKUs + 1)

\* create_store_allocation_limits (lines 53-77)
CreateStoreAllocationLimits ==
  /\ LET total_stores == Len(target_stores) IN
       /\ store_allocation_limits' =
            [store_id \in TargetSet(target_stores) |->
               tier_limits[GetStoreTier(IndexOf(target_stores, store_id),
                                        total_stores)]]
       /\ tier_counts' =
            [tier_name \in Range(tier_names) |->
               Cardinality({i \in 0 .. (total_stores - 1) :
                              GetStoreTier(i, total_stores) = tier_name})]
  /\ tier_pc' = "CREATED"
  /\ UNCHANGED <<milp, greedy>>
  /\ UNCHANGED <<SKUs, target_stores, A, QSUM, priority_temperature, fields,
                 locals, calls_left, classifier, sku_target_stores, lookup>>

\* set_sku_target_stores: the stores designated for a SKU, a leading part of
\* the ranked list given in either order, are stored sorted by volume
SetSkuTargetStores ==
  /\ \E sku \in 1 .. NumDesignatedSKUs :
       \E m \in 0 .. Len(target_stores) :
         \E designated \in {SubSeq(target_stores, 1, m),
                            Reverse(SubSeq(target_stores, 1, m))} :
           sku_target_stores' =
             Put(sku_target_stores, sku, SortDesc(designated, QSUM))
  /\ UNCHANGED <<milp, greedy>>
  /\ UNCHANGED <<inputs, fields, locals, calls_left, classifier, tier_counts,
                 tier_pc, lookup>>

\* a call of get_store_tier_info(store_id, stores)
LookupStoreTierInfo ==
  /\ \E store_id \in LookupStores :
       lookup' = [op |-> "get_store_tier_info", store |-> store_id,
                  ranked |-> target_stores,
                  result |-> GetStoreTierInfo(store_id, target_stores)]
  /\ UNCHANGED <<milp, greedy>>
  /\ UNCHANGED <<inputs, fields, locals, calls_left, classifier, tier_counts,
                 tier_pc, sku_target_stores>>

\* a call of get_store_tier_for_sku(sku, store, QSUM)
LookupStoreTierForSku ==
  /\ \E sku \in LookupSKUs : \E store \in LookupStores :
       lookup' = [op |-> "get_store_tier_for_sku", store |-> store,
                  ranked |-> GetSkuTargetStores(sku),
                  result |-> [outcome |-> "returned",
                              tier_name |->
                                GetStoreTierForSku(sku, store, QSUM)]]
  /\ UNCHANGED <<milp, greedy>>
  /\ UNCHANGED <<inputs, fields, locals, calls_left, classifier, tier_counts,
                 tier_pc, sku_target_stores>>

\* a call of get_store_tier_info_for_sku(store_id, sku, QSUM)
LookupStoreTierInfoForSku ==
  /\ \E sku \in LookupSKUs : \E store_id \in LookupStores :
       lookup' = [op |-> "get_store_tier_info_for_sku", store |-> store_id,
                  ranked |-> GetSkuTargetStores(sku),
                  result |-> GetStoreTierInfoForSku(store_id, sku, QSUM)]
  /\ UNCHANGED <<milp, greedy>>
  /\ UNCHANGED <<inputs, fields, locals, calls_left, classifier, tier_counts,
                 tier_pc, sku_target_stores>>

\* a call of IntegratedOptimizer._get_sku_store_tier_info with the store
\* list _get_sku_target_stores gives for the SKU
LookupSkuStoreTierInfo ==
  /\ \E sku \in LookupSKUs : \E store \in LookupStores :
       LET stores == SkuTargetStoresOrDefault(sku, target_stores) IN
       lookup' = [op |-> "_get_sku_store_tier_info", store |-> store,
                  ranked |-> stores,
                  result |-> GetSkuStoreTierInfoOfOptimizer(store, stores)]
  /\ UNCHANGED <<milp, greedy>>
  /\ UNCHANGED <<inputs, fields, locals, calls_left, classifier, tier_counts,
                 tier_pc, sku_target_stores>>

\* the tiers of a ranked store list: the limits are created and the tier of
\* a store is looked up
NextTierSystem ==
  \/ CreateStoreAllocationLimits
  \/ LookupStoreTierInfo

SpecTierSystem == InitTierSystem /\ [][NextTierSystem]_vars

\* the tier lookups by store id, over up to NumLookupStores ranked stores
LookupStoreLists == {[n \in 1 .. m |-> n] : m \in 0 .. NumLookupStores}

InitTierLookup ==
  /\ target_stores \in LookupStoreLists
  /\ QSUM \in [TargetSet(target_stores) -> 0 .. MaxQ]
  /\ \A a, b \in TargetSet(target_stores) : a < b => QSUM[a] >= QSUM[b]
  /\ store_allocation_limits = EmptyDict
  /\ SKUs = {}
  /\ A = EmptyDict
  /\ priority_temperature = 0
  /\ InitFields
  /\ InitLocals
  /\ calls_left = 0
  /\ InitClassifier
  /\ InitTiers
  /\ InitMilp
  /\ InitGreedy

NextTierLookup ==
  \/ SetSkuTargetStores
  \/ LookupStoreTierInfo
  \/ LookupStoreTierForSku
  \/ LookupStoreTierInfoForSku
  \/ LookupSkuStoreTierInfo

SpecTierLookup == InitTierLookup /\ [][NextTierLookup]_vars

\* ------------------------------------------- the Step 1 model, variable by
\* variable: b (selected_combinations holds the pairs with b = 1), the
\* indicators color_binary / size_binary and the coverage variables
\* color_sku_groups[c] / size_sku_groups[z]
ColorGroup(skus, c) == {i \in skus : ColorOf(i) = c}
SizeGroup(skus, z) == {i \in skus : SizeOf(i) = z}

\* lpSum(b[sku][j] for sku in group)
GroupAllocation(b, group, j) == Cardinality({i \in group : <<i, j>> \in b})

\* variant: only "allocation >= binary" is posted
IndicatorLinkedBelow(allocation, group_size, binary) == allocation >= binary

\* the two constraints that link an indicator to its group:
\* allocation >= binary and allocation <= len(group) * binary
IndicatorLinked(allocation, group_size, binary) ==
  /\ allocation >= binary
  /\ allocation <= group_size * binary

\* everything _add_step1_constraints posts, with the bounds of the variables
Step1ModelSatisfied(b, cbin, zbin, ccov, zcov, skus, ts, a) ==
  /\ SupplyConstraint(b, skus, ts, a)
  /\ \A j \in TargetSet(ts) :
       /\ \A c \in Colors(skus) :
            IndicatorLinked(GroupAllocation(b, ColorGroup(skus, c), j),
                            Cardinality(ColorGroup(skus, c)), cbin[<<c, j>>])
       /\ ccov[j] = SumOver(cbin, Colors(skus) \X {j})
       /\ ccov[j] <= Cardinality(Colors(skus))
       /\ \A z \in Sizes(skus) :
            IndicatorLinked(GroupAllocation(b, SizeGroup(skus, z), j),
                            Cardinality(SizeGroup(skus, z)), zbin[<<z, j>>])
       /\ zcov[j] = SumOver(zbin, Sizes(skus) \X {j})
       /\ zcov[j] <= Cardinality(Sizes(skus))

ModelStoreLists == {[n \in 1 .. m |-> n] : m \in 0 .. NumModelStores}

\* any values the variables of the Step 1 model may take within their bounds
InitStep1Model ==
  /\ SKUs \in SKULists
  /\ A \in [SKUs -> 0 .. MaxSupply]
  /\ target_stores \in ModelStoreLists
  /\ QSUM = EmptyDict
  /\ store_allocation_limits = EmptyDict
  /\ priority_temperature = 0
  /\ InitFields
  /\ pc = "INIT"
  /\ solver_status = LpStatusNotSolved
  /\ selected_combinations \in SUBSET BinaryVariables(SKUs, target_stores)
  /\ step1_result = NoResult
  /\ step2_result = NoResult
  /\ step3_result = NoResult
  /\ result = NoResult
  /\ weights2 = EmptyDict
  /\ weights3 = EmptyDict
  /\ calls_left = 0
  /\ InitClassifier
  /\ InitTiers
  /\ InitGreedy
  /\ color_binary \in [Colors(SKUs) \X TargetSet(target_stores) -> 0 .. 1]
  /\ size_binary \in [Sizes(SKUs) \X TargetSet(target_stores) -> 0 .. 1]
  /\ color_coverage \in [TargetSet(target_stores)
                           -> 0 .. Cardinality(Colors(SKUs))]
  /\ size_coverage \in [TargetSet(target_stores)
                          -> 0 .. Cardinality(Sizes(SKUs))]
  /\ step1_feasible = "UNTESTED"

\* the candidate is tested against the constraints of the model
TestCandidate ==
  /\ step1_feasible = "UNTESTED"
  /\ step1_feasible' =
       IF Step1ModelSatisfied(selected_combinations, color_binary,
                              size_binary, color_coverage, size_coverage,
                              SKUs, target_stores, A)
       THEN "FEASIBLE" ELSE "INFEASIBLE"
  /\ UNCHANGED <<inputs, fields, locals, calls_left, classifier, tiers,
                 greedy, color_binary, size_binary, color_coverage,
                 size_coverage>>

NextStep1Model == TestCandidate

SpecStep1Model == InitStep1Model /\ [][NextStep1Model]_vars

\* ------------------------------------------- a capacity table with a hole
\* the pipeline called with a capacity table that lacks the entry of at
\* least one target store (the table is a parameter of optimize_three_step,
\* nothing checks it against target_stores)
InitMissingEntry ==
  /\ TypeInputs
  /\ store_allocation_limits
       \in [TargetSet(target_stores) -> {NoEntry} \cup (0 .. MaxCap)]
  /\ \E j \in TargetSet(target_stores) : store_allocation_limits[j] = NoEntry
  /\ InitFields
  /\ InitLocals
  /\ calls_left = 1
  /\ InitClassifier
  /\ InitTiers
  /\ InitMilp
  /\ InitGreedy

SpecMissingEntry == InitMissingEntry /\ [][Next]_vars

\* ------------------------------------------------ one instance, many calls
\* the inputs of a call on a reused instance
ReuseInputs(skus, ts, a, q, limits, t) ==
  /\ skus \in {1 .. k : k \in 0 .. NumReuseSKUs}
  /\ ts \in {[n \in 1 .. m |-> n] : m \in 0 .. NumReuseStores}
  /\ a \in [skus -> 0 .. MaxSupply]
  /\ q \in [TargetSet(ts) -> 0 .. MaxQ]
  /\ limits \in [TargetSet(ts) -> 0 .. MaxCap]
  /\ t \in Temperatures

InitReuse ==
  /\ ReuseInputs(SKUs, target_stores, A, QSUM, store_allocation_limits,
                 priority_temperature)
  /\ InitFields
  /\ InitLocals
  /\ calls_left = NumCalls
  /\ InitClassifier
  /\ InitTiers
  /\ InitMilp
  /\ InitGreedy

\* optimize_three_step is entered again on the same instance, with the
\* arguments of the new call (lines 39-53): no field of the instance is
\* reset
CallAgain ==
  /\ pc \in Terminal
  /\ calls_left > 0
  /\ calls_left' = calls_left - 1
  /\ ReuseInputs(SKUs', target_stores', A', QSUM', store_allocation_limits',
                 priority_temperature')
  /\ pc' = "STEP1_SOLVING"
  /\ solver_status' = LpStatusNotSolved
  /\ selected_combinations' = {}
  /\ step1_result' = NoResult
  /\ step2_result' = NoResult
  /\ step3_result' = NoResult
  /\ result' = NoResult
  /\ weights2' = EmptyDict
  /\ weights3' = EmptyDict
  /\ UNCHANGED <<classifier, tiers, milp, greedy>>
  /\ UNCHANGED fields

NextReuse ==
  \/ Call
  \/ CallAgain
  \/ Step1Coverage
  \/ Step2Start
  \/ Step2Run
  \/ Step3Start
  \/ Step3Run

SpecReuse == InitReuse /\ [][NextReuse]_vars

\* --------------------------------------------------------- GreedyAllocator
\* the inner loop of _priority_allocation: "for j in target_stores"
RECURSIVE PriorityStores(_, _, _, _, _)
PriorityStores(alloc, supply, i, ts, marks) ==
  IF ts = <<>> THEN [allocation |-> alloc, supply |-> supply]
  ELSE LET j == Head(ts) IN
       IF <<i, j>> \in marks /\ supply[i] > 0
       THEN PriorityStores(Put(alloc, <<i, j>>, 1),
                           [supply EXCEPT ![i] = @ - 1], i, Tail(ts), marks)
       ELSE PriorityStores(alloc, supply, i, Tail(ts), marks)

\* _priority_allocation: "for i in scarce_skus"; marks holds the pairs with
\* b_hat.get((i, j), 0) == 1
RECURSIVE PriorityAllocationOf(_, _, _, _, _)
PriorityAllocationOf(alloc, supply, skus, ts, marks) ==
  IF skus = <<>> THEN [allocation |-> alloc, supply |-> supply]
  ELSE LET r == PriorityStores(alloc, supply, Head(skus), ts, marks)
       IN PriorityAllocationOf(r.allocation, r.supply, Tail(skus), ts, marks)

\* the candidates of one list of _get_candidate_skus: (sku, type, supply) of
\* the SKUs in supply that have no entry at the store; rank is 0 for scarce
\* and 1 for abundant
RECURSIVE CandidatesOf(_, _, _, _, _)
CandidatesOf(skus, rank, store_id, alloc, supply) ==
  IF skus = <<>> THEN <<>>
  ELSE LET sku == Head(skus)
           rest == CandidatesOf(Tail(skus), rank, store_id, alloc, supply)
       IN IF supply[sku] > 0 /\ <<sku, store_id>> \notin DOMAIN alloc
          THEN <<[sku |-> sku, rank |-> rank, qty |-> supply[sku]]>> \o rest
          ELSE rest

\* the sort key (0 if scarce else 1, supply) compared as Python tuples
KeyAtMost(x, y) ==
  \/ x.rank < y.rank
  \/ x.rank = y.rank /\ x.qty <= y.qty

\* list.sort(key=...): stable, ascending
RECURSIVE InsertAsc(_, _)
InsertAsc(sorted, x) ==
  IF sorted = <<>> THEN <<x>>
  ELSE IF KeyAtMost(Head(sorted), x)
       THEN <<Head(sorted)>> \o InsertAsc(Tail(sorted), x)
       ELSE <<x>> \o sorted

RECURSIVE SortAsc(_)
SortAsc(s) ==
  IF s = <<>> THEN <<>>
  ELSE InsertAsc(SortAsc(SubSeq(s, 1, Len(s) - 1)), s[Len(s)])

\* _get_candidate_skus
GetCandidateSkus(scarce, abundant, store_id, alloc, supply) ==
  SortAsc(CandidatesOf(scarce, 0, store_id, alloc, supply)
            \o CandidatesOf(abundant, 1, store_id, alloc, supply))

\* _allocate_to_store: the loop over the candidates
RECURSIVE AllocateToStore(_, _, _, _, _, _, _)
AllocateToStore(alloc, supply, store_id, cands, allocated_count, additional_slots, max_qty_per_sku) ==
  IF cands = <<>> \/ allocated_count >= additional_slots
  THEN [allocation |-> alloc, supply |-> supply]
  ELSE LET c == Head(cands)
           allocated_qty == Min(Min(max_qty_per_sku, c.qty), 1)
       IN IF allocated_qty > 0
          THEN AllocateToStore(Put(alloc, <<c.sku, store_id>>, allocated_qty),
                               [supply EXCEPT ![c.sku] = @ - allocated_qty],
                               store_id, Tail(cands), allocated_count + 1,
                               additional_slots, max_qty_per_sku)
          ELSE AllocateToStore(alloc, supply, store_id, Tail(cands),
                               allocated_count, additional_slots,
                               max_qty_per_sku)

\* SKUs already placed at a store with a positive quantity
CurrentAllocated(alloc, store_id) ==
  Cardinality({k \in DOMAIN alloc : k[2] = store_id /\ alloc[k] > 0})

\* _additional_allocation: "for store_idx, store_id in enumerate(...)";
\* rest is the part of target_stores still to visit
RECURSIVE AdditionalAllocationOf(_, _, _, _, _, _)
AdditionalAllocationOf(alloc, supply, rest, ts, scarce, abundant) ==
  IF rest = <<>> THEN [allocation |-> alloc, supply |-> supply]
  ELSE LET store_id == Head(rest)
           tier_info == GetStoreTierInfo(store_id, ts)
           additional_slots ==
             tier_info.max_sku_limit - CurrentAllocated(alloc, store_id)
           r == IF additional_slots <= 0
                THEN [allocation |-> alloc, supply |-> supply]
                ELSE AllocateToStore(
                       alloc, supply, store_id,
                       GetCandidateSkus(scarce, abundant, store_id, alloc,
                                        supply),
                       0, additional_slots, tier_info.max_sku_limit)
       IN AdditionalAllocationOf(r.allocation, r.supply, Tail(rest), ts,
                                 scarce, abundant)

\* variant: a pair is raised to the limit of the store whatever is in supply
AdditionalQtyToLimit(max_qty_per_sku, current_qty, supply_left) ==
  max_qty_per_sku - current_qty

\* additional_qty = min(max_qty_per_sku - current_qty, current_supply[sku])
AdditionalQty(max_qty_per_sku, current_qty, supply_left) ==
  Min(max_qty_per_sku - current_qty, supply_left)

\* the loop over store_allocations of one store; every SKU has one pair at
\* the store and its own supply, so the order of the pairs changes nothing
RECURSIVE IncreaseAtStore(_, _, _, _, _)
IncreaseAtStore(alloc, supply, store_id, skus, max_qty_per_sku) ==
  IF skus = <<>> THEN [allocation |-> alloc, supply |-> supply]
  ELSE LET sku == Head(skus)
           current_qty == alloc[<<sku, store_id>>]
       IN IF current_qty < max_qty_per_sku /\ supply[sku] > 0
          THEN LET additional_qty ==
                     AdditionalQty(max_qty_per_sku, current_qty, supply[sku])
               IN IncreaseAtStore(
                    Put(alloc, <<sku, store_id>>, current_qty + additional_qty),
                    [supply EXCEPT ![sku] = @ - additional_qty],
                    store_id, Tail(skus), max_qty_per_sku)
          ELSE IncreaseAtStore(alloc, supply, store_id, Tail(skus),
                               max_qty_per_sku)

\* _quantity_increase_allocation: store_idx counts from 0
RECURSIVE QuantityIncreaseOf(_, _, _, _)
QuantityIncreaseOf(alloc, supply, store_idx, ts) ==
  IF store_idx >= Len(ts) THEN [allocation |-> alloc, supply |-> supply]
  ELSE LET store_id == ts[store_idx + 1]
           max_qty_per_sku == tier_limits[GetStoreTier(store_idx, Len(ts))]
           r == IF max_qty_per_sku = 1
                THEN [allocation |-> alloc, supply |-> supply]
                ELSE IncreaseAtStore(
                       alloc, supply, store_id,
                       SeqOf({k[1] : k \in {p \in DOMAIN alloc :
                                              p[2] = store_id}}),
                       max_qty_per_sku)
       IN QuantityIncreaseOf(r.allocation, r.supply, store_idx + 1, ts)

GreedyStoreLists == {[n \in 1 .. m |-> n] : m \in 0 .. NumGreedyStores}

\* a fresh GreedyAllocator and the arguments of allocate: the lists of
\* classify_skus for the supply map, the ranked target stores, and the marks
\* of CoverageOptimizer on the scarce SKUs
InitGreedyRun ==
  /\ SKUs \in {1 .. k : k \in 0 .. NumGreedySKUs}
  /\ A \in [SKUs -> 0 .. MaxSupply]
  /\ target_stores \in GreedyStoreLists
  /\ QSUM = EmptyDict
  /\ store_allocation_limits = EmptyDict
  /\ priority_temperature = 0
  /\ InitFields
  /\ InitLocals
  /\ calls_left = 0
  /\ InitTiers
  /\ InitMilp
  /\ basic_scarce = BasicScarce(A, SeqOf(SKUs), Len(target_stores))
  /\ scarce_skus \in ListsOf(ExtendedScarce(basic_scarce, SeqOf(SKUs)))
  /\ abundant_skus = AbundantSkus(SeqOf(SKUs), scarce_skus)
  /\ classifier_pc = "CLASSIFIED"
  /\ b_hat \in SUBSET (Range(scarce_skus) \X TargetSet(target_stores))
  /\ current_supply = EmptyDict
  /\ greedy_pc = "NEW"

\* allocate, phase 1 (lines 36, 47-68)
PriorityAllocation ==
  /\ greedy_pc = "NEW"
  /\ LET r == PriorityAllocationOf(EmptyDict, A, scarce_skus, target_stores,
                                   b_hat)
     IN /\ final_allocation' = r.allocation
        /\ current_supply' = r.supply
  /\ greedy_pc' = "PRIORITY_DONE"
  /\ UNCHANGED <<inputs, step1_allocation, allocation_after_step2,
                 allocation_after_step3, step2_additional_allocation,
                 step3_additional_allocation, locals, calls_left, classifier,
                 tiers, milp, b_hat>>

\* allocate, phase 2 (lines 39-40, 70-140)
AdditionalAllocation ==
  /\ greedy_pc = "PRIORITY_DONE"
  /\ LET r == AdditionalAllocationOf(final_allocation, current_supply,
                                     target_stores, target_stores,
                                     scarce_skus, abundant_skus)
     IN /\ final_allocation' = r.allocation
        /\ current_supply' = r.supply
  /\ greedy_pc' = "ADDITIONAL_DONE"
  /\ UNCHANGED <<inputs, step1_allocation, allocation_after_step2,
                 allocation_after_step3, step2_additional_allocation,
                 step3_additional_allocation, locals, calls_left, classifier,
                 tiers, milp, b_hat>>

\* allocate, phase 3 (lines 43, 142-167)
QuantityIncreaseAllocation ==
  /\ greedy_pc = "ADDITIONAL_DONE"
  /\ LET r == QuantityIncreaseOf(final_allocation, current_supply, 0,
                                 target_stores)
     IN /\ final_allocation' = r.allocation
        /\ current_supply' = r.supply
  /\ greedy_pc' = "DONE"
  /\ UNCHANGED <<inputs, step1_allocation, allocation_after_step2,
                 allocation_after_step3, step2_additional_allocation,
                 step3_additional_allocation, locals, calls_left, classifier,
                 tiers, milp, b_hat>>

NextGreedy ==
  \/ PriorityAllocation
  \/ AdditionalAllocation
  \/ QuantityIncreaseAllocation

SpecGreedy == InitGreedyRun /\ [][NextGreedy]_vars

\* ------------------------------------------------------------- properties
HasStep1 == step1_result.status = "success"
HasStep2 == step2_result.status = "success"
HasStep3 == step3_result.status = "success"

\* units of SKU i over all stores of an allocation
SkuTotal(alloc, i) == SumOver(alloc, {k \in DOMAIN alloc : k[1] = i})

\* units of capacity of all target stores
RECURSIVE TotalCapacity(_, _)
TotalCapacity(ts, limits) ==
  IF ts = <<>> THEN 0
  ELSE LimitOf(limits, Head(ts)) + TotalCapacity(Tail(ts), limits)

SupplyRespected(alloc) == \A i \in SKUs : SkuTotal(alloc, i) <= A[i]

CapacityRespected(alloc) ==
  \A k \in DOMAIN alloc : alloc[k] <= LimitOf(store_allocation_limits, k[2])

\* C1: in every allocation snapshot (the results of Step 1, 2 and 3, the
\* instance's snapshots and its working allocation) every SKU's units summed
\* over the stores are at most its supply, for every temperature and draw.
C1_SupplyNeverExceeded ==
  /\ HasStep1 => SupplyRespected(step1_result.allocation)
  /\ HasStep2 => SupplyRespected(step2_result.allocation)
  /\ HasStep3 => SupplyRespected(step3_result.allocation)
  /\ SupplyRespected(final_allocation)
  /\ SupplyRespected(step1_allocation)
  /\ SupplyRespected(allocation_after_step2)
  /\ SupplyRespected(allocation_after_step3)

\* a random run in which Steps 2 and 3 both placed units of a SKU, its supply
\* ran out, and a store still had headroom for it
C1_Witness ==
  /\ pc = "STEP3_DONE"
  /\ priority_temperature = AlphaDen
  /\ \E i \in SKUs :
       /\ SkuTotal(step3_result.allocation, i) = A[i]
       /\ SkuTotal(step1_result.allocation, i)
            < SkuTotal(step2_result.allocation, i)
       /\ SkuTotal(step2_result.allocation, i) < A[i]
       /\ A[i] < TotalCapacity(target_stores, store_allocation_limits)

\* C2 (as claimed): in every allocation snapshot every (SKU, store) quantity
\* is at most the tier capacity of the store.
C2_CapacityNeverExceeded ==
  /\ HasStep1 => CapacityRespected(step1_result.allocation)
  /\ HasStep2 => CapacityRespected(step2_result.allocation)
  /\ HasStep3 => CapacityRespected(step3_result.allocation)

\* C3: right after a successful Step 1 the allocation holds exactly the pairs
\* the solver marked, each with quantity 1, and nothing else.
C3_Step1Binary ==
  HasStep1 =>
    /\ DOMAIN step1_result.allocation = selected_combinations
    /\ \A k \in DOMAIN step1_result.allocation :
         step1_result.allocation[k] = 1
    /\ \A k \in SKUs \X TargetSet(target_stores) :
         Get(step1_result.allocation, k) \in {0, 1}
    /\ pc = "STEP1_DONE" => step1_allocation = step1_result.allocation

\* Step 1 has just succeeded with some pairs marked and some not
C3_Witness ==
  /\ pc = "STEP1_DONE"
  /\ selected_combinations # {}
  /\ selected_combinations # SKUs \X TargetSet(target_stores)

\* C4: on a successful run the total allocated quantity does not decrease
\* from Step 1 to Step 2 to Step 3.
C4_TotalNonDecreasing ==
  /\ HasStep2 =>
       Total(step1_result.allocation) <= Total(step2_result.allocation)
  /\ HasStep3 =>
       Total(step2_result.allocation) <= Total(step3_result.allocation)
  /\ pc = "STEP3_DONE" =>
       /\ result.status = "success"
       /\ Total(step1_result.allocation) <= Total(step2_result.allocation)
       /\ Total(step2_result.allocation) <= result.total_allocated

\* a successful run in which each stage strictly added units
C4_Witness ==
  /\ pc = "STEP3_DONE"
  /\ 0 < Total(step1_result.allocation)
  /\ Total(step1_result.allocation) < Total(step2_result.allocation)
  /\ Total(step2_result.allocation) < Total(step3_result.allocation)

\* C5: a Step 1 solver status other than optimal ends the run in the failed
\* state: status 'failed' for step 1, an empty final_allocation in the result,
\* and neither Step 2 nor Step 3 started.
C5_Step1FailureTerminal ==
  (pc \notin {"INIT", "STEP1_SOLVING"} /\ solver_status # LpStatusOptimal) =>
    /\ pc = "STEP1_FAILED"
    /\ result.status = "failed"
    /\ result.step = "1"
    /\ result.final_allocation = EmptyDict
    /\ step1_result.status = "failed"
    /\ step2_result = NoResult
    /\ step3_result = NoResult
    /\ weights2 = EmptyDict
    /\ weights3 = EmptyDict

\* the solver reported an infeasible model for a non-trivial input
C5_Witness ==
  /\ pc = "STEP1_FAILED"
  /\ solver_status = LpStatusInfeasible
  /\ SKUs # {}
  /\ target_stores # <<>>

\* C6 (as claimed): Step 2 runs only after a successful Step 1, Step 3 only
\* after a completed Step 2, and a run whose Step 1 succeeded never leaves
\* the sequence STEP1_DONE, STEP2_RUNNING, STEP2_DONE, STEP3_RUNNING,
\* STEP3_DONE, where it ends with status 'success'.
C6_StrictlySequential ==
  /\ pc \in {"STEP2_RUNNING", "STEP2_DONE", "STEP3_RUNNING", "STEP3_DONE"}
       => HasStep1
  /\ pc \in {"STEP3_RUNNING", "STEP3_DONE"} => HasStep2
  /\ HasStep1 =>
       pc \in {"STEP1_DONE", "STEP2_RUNNING", "STEP2_DONE", "STEP3_RUNNING",
               "STEP3_DONE"}
  /\ pc = "STEP3_DONE" => result.status = "success"

\* SKUs the Step 1 solution assigns to store j
AssignedSKUs(j) == {i \in SKUs : <<i, j>> \in selected_combinations}

\* C7 (as claimed): in the Step 1 solution every target store is assigned at
\* most capacity(store) SKUs.
C7_Step1StoreCapacity ==
  HasStep1 =>
    \A j \in TargetSet(target_stores) :
      Cardinality(AssignedSKUs(j)) <= LimitOf(store_allocation_limits, j)

\* C8 (as claimed): with no target store or no SKU a run whose solver found
\* the optimum raises nothing and ends with status 'success' and an empty
\* final allocation.
C8_EmptyInputSucceeds ==
  ((target_stores = <<>> \/ SKUs = {}) /\ HasStep1) =>
    /\ pc # "RAISED"
    /\ pc = "STEP3_DONE" =>
         /\ result.status = "success"
         /\ result.final_allocation = EmptyDict

\* the allocations a second, independent run reaches from the same Step 1
\* allocation when it draws r2 in Step 2 and r3 in Step 3
OtherRunStep2(r2) ==
  Step2Loop(Step2Initial(step1_result.allocation), 0, 1, Cardinality(SKUs),
            target_stores, A, store_allocation_limits,
            CalculateStorePriorities(target_stores, QSUM,
                                     priority_temperature, r2)).allocation
OtherRunStep3(r2, r3) ==
  Step3Loop(Step3Initial(OtherRunStep2(r2)), 0, 1, Cardinality(SKUs),
            target_stores, A, store_allocation_limits,
            CalculateStorePriorities(target_stores, QSUM,
                                     priority_temperature, r3)).allocation

\* C9: with priority_temperature = 0 any second run from the same Step 1
\* allocation ends Step 2 and Step 3 with the same allocations as this run,
\* whatever random values either run draws.
C9_DeterministicAtZero ==
  priority_temperature = 0 =>
    /\ HasStep2 =>
         \A r2 \in RandomDraws(target_stores) :
           OtherRunStep2(r2) = step2_result.allocation
    /\ HasStep3 =>
         \A r2, r3 \in RandomDraws(target_stores) :
           OtherRunStep3(r2, r3) = step3_result.allocation

\* a run at temperature 0 over stores of equal volume in which a SKU is too
\* scarce for every store, so that the store order decides who is served
C9_Witness ==
  /\ pc = "STEP3_DONE"
  /\ priority_temperature = 0
  /\ Len(target_stores) >= 2
  /\ \A j \in TargetSet(target_stores) : QSUM[j] = QSUM[1]
  /\ \E i \in SKUs : \E j1, j2 \in TargetSet(target_stores) :
       /\ Get(step1_result.allocation, <<i, j1>>) = 0
       /\ Get(step1_result.allocation, <<i, j2>>) = 0
       /\ Get(step3_result.allocation, <<i, j1>>) > 0
       /\ Get(step3_result.allocation, <<i, j2>>) = 0
       /\ LimitOf(store_allocation_limits, j2) > 0

\* C10 (as claimed): the scores Step 3 sorts by order any two target stores
\* the way the scores Step 2 sorted by did.
C10_SameOrderBothStages ==
  pc \in {"STEP3_RUNNING", "STEP3_DONE"} =>
    \A a, b \in TargetSet(target_stores) :
      (weights2[a] > weights2[b]) <=> (weights3[a] > weights3[b])

\* the numerator that stands for the score 1.0
ScoreOne == AlphaDen * RandDen * WDen(target_stores, QSUM)

\* store a comes before store b in the list s
Precedes(s, a, b) ==
  \E m, n \in DOMAIN s : m < n /\ s[m] = a /\ s[n] = b

\* the scores w rank the target stores by volume alone
VolumeRanked(w) ==
  /\ \A a, b \in TargetSet(target_stores) :
       /\ QSUM[a] > QSUM[b] => w[a] > w[b]
       /\ QSUM[a] = QSUM[b] => w[a] = w[b]
       /\ QSUM[a] > QSUM[b] =>
            Precedes(SortDesc(target_stores, w), a, b)
  /\ (\A a, b \in TargetSet(target_stores) : QSUM[a] = QSUM[b]) =>
       \A a \in TargetSet(target_stores) : w[a] = ScoreOne

\* in the list of stores a pass visits, a larger volume comes first
VisitedByVolume(visited) ==
  \A a, b \in TargetSet(target_stores) :
    (QSUM[a] > QSUM[b] /\ (\E m \in DOMAIN visited : visited[m] = a)
                       /\ (\E n \in DOMAIN visited : visited[n] = b))
      => Precedes(visited, a, b)

\* C11: with priority_temperature = 0 the scores of both greedy passes depend
\* on the volume only: a store of larger volume has a strictly larger score
\* and is visited first, stores of equal volume have equal scores, and when
\* all target stores have the same volume every score is 1.
C11_VolumeOrderAtZero ==
  priority_temperature = 0 =>
    /\ pc \in {"STEP2_RUNNING", "STEP2_DONE", "STEP3_RUNNING", "STEP3_DONE"}
         => /\ VolumeRanked(weights2)
            /\ \A i \in SKUs :
                 VisitedByVolume(
                   SortDesc(UnfilledStores(step1_result.allocation, i,
                                           target_stores), weights2))
    /\ pc \in {"STEP3_RUNNING", "STEP3_DONE"}
         => /\ VolumeRanked(weights3)
            /\ \A i \in SKUs :
                 VisitedByVolume(
                   SortDesc(EligibleStores(step2_result.allocation, i,
                                           target_stores,
                                           store_allocation_limits),
                            weights3))

\* a run at temperature 0 in which the store listed second has the larger
\* volume and takes the only unit of a SKU that the first store had room for
C11_Witness ==
  /\ pc = "STEP3_DONE"
  /\ priority_temperature = 0
  /\ Len(target_stores) = 2
  /\ QSUM[2] > QSUM[1]
  /\ \E i \in SKUs :
       /\ Get(step1_result.allocation, <<i, 1>>) = 0
       /\ Get(step1_result.allocation, <<i, 2>>) = 0
       /\ Get(step2_result.allocation, <<i, 2>>) = 1
       /\ Get(step2_result.allocation, <<i, 1>>) = 0
       /\ LimitOf(store_allocation_limits, 1) > 0

\* target stores that hold no unit of SKU i in alloc and can take one
OpenStores(alloc, i) ==
  {j \in TargetSet(target_stores) :
     /\ Get(alloc, <<i, j>>) = 0
     /\ LimitOf(store_allocation_limits, j) >= 1}

\* C12: after Step 2, for every SKU, either its whole supply is allocated or
\* every target store of capacity at least 1 holds at least one unit of it;
\* Step 2 places one unit per open store until the remaining supply or the
\* open stores run out, so it adds min(remaining supply, open stores) units.
C12_Step2MinimalPresence ==
  HasStep2 =>
    \A i \in SKUs :
      /\ \/ SkuTotal(step2_result.allocation, i) = A[i]
         \/ \A j \in TargetSet(target_stores) :
              LimitOf(store_allocation_limits, j) >= 1
                => Get(step2_result.allocation, <<i, j>>) >= 1
      /\ SkuTotal(step2_result.allocation, i)
           - SkuTotal(step1_result.allocation, i)
         = Min(A[i] - SkuTotal(step1_result.allocation, i),
               Cardinality(OpenStores(step1_result.allocation, i)))

\* Step 2 has ended with one SKU out of supply before a store that had room
\* and another SKU placed by it in every store that has room, units to spare
C12_Witness ==
  /\ pc = "STEP2_DONE"
  /\ \E i \in SKUs :
       /\ SkuTotal(step2_result.allocation, i) = A[i]
       /\ OpenStores(step2_result.allocation, i) # {}
  /\ \E i \in SKUs :
       /\ SkuTotal(step2_result.allocation, i) < A[i]
       /\ SkuTotal(step1_result.allocation, i)
            < SkuTotal(step2_result.allocation, i)
       /\ OpenStores(step2_result.allocation, i) = {}

\* every pair of the allocation before is present in the allocation after,
\* with at least the same quantity
NeverDecreased(before, after) ==
  \A k \in DOMAIN before : k \in DOMAIN after /\ after[k] >= before[k]

\* C13: the greedy passes never decrease an existing allocation: every
\* (SKU, store) pair of the Step 1 allocation is in the Step 2 allocation
\* with at least its quantity, and every pair of the Step 2 allocation is in
\* the Step 3 allocation with at least its quantity.
C13_GreedyNeverDecreases ==
  /\ pc = "STEP2_RUNNING" =>
       NeverDecreased(step1_result.allocation, final_allocation)
  /\ HasStep2 =>
       NeverDecreased(step1_result.allocation, step2_result.allocation)
  /\ pc = "STEP3_RUNNING" =>
       NeverDecreased(step2_result.allocation, final_allocation)
  /\ HasStep3 =>
       /\ NeverDecreased(step2_result.allocation, step3_result.allocation)
       /\ NeverDecreased(step1_result.allocation, step3_result.allocation)

\* a finished run that kept a Step 1 pair through Step 2 and raised it in
\* Step 3, and that added a pair of its own in Step 2
C13_Witness ==
  /\ pc = "STEP3_DONE"
  /\ \E k \in DOMAIN step1_result.allocation :
       /\ step2_result.allocation[k] = step1_result.allocation[k]
       /\ step3_result.allocation[k] > step2_result.allocation[k]
  /\ \E k \in DOMAIN step2_result.allocation :
       /\ k \notin DOMAIN step1_result.allocation
       /\ step3_result.allocation[k] >= 1

\* room left for SKU i over the target stores of alloc
Headroom(alloc, i) ==
  LET room == [j \in TargetSet(target_stores) |->
                 Max(0, LimitOf(store_allocation_limits, j)
                          - Get(alloc, <<i, j>>))]
  IN SumOver(room, DOMAIN room)

\* C14 (as claimed): after Step 3, for every SKU, either no supply remains or
\* every target store holds exactly capacity(store) units of it; the units
\* Step 3 gives a SKU, min(remaining supply, headroom) store by store, add up
\* to min(remaining supply, total headroom).
C14_Step3Exhaustive ==
  HasStep3 =>
    \A i \in SKUs :
      /\ \/ SkuTotal(step3_result.allocation, i) = A[i]
         \/ \A j \in TargetSet(target_stores) :
              Get(step3_result.allocation, <<i, j>>)
                = LimitOf(store_allocation_limits, j)
      /\ SkuTotal(step3_result.allocation, i)
           - SkuTotal(step2_result.allocation, i)
         = Min(A[i] - SkuTotal(step2_result.allocation, i),
               Headroom(step2_result.allocation, i))

\* a single target store and SKUs that all have the same supply s >= 1
SingleStoreCase ==
  /\ Len(target_stores) = 1
  /\ SKUs # {}
  /\ \A i, k \in SKUs : A[i] = A[k] /\ A[i] >= 1

\* the single store holds at most 1 unit of every SKU after Step 1, exactly
\* 1 after Step 2 and min(s, c) after Step 3, s - min(s, c) units staying
SingleStoreOutcome ==
  LET j == target_stores[1]
      c == LimitOf(store_allocation_limits, j)
  IN /\ HasStep1 =>
          \A i \in SKUs : Get(step1_result.allocation, <<i, j>>) <= 1
     /\ HasStep2 =>
          \A i \in SKUs : Get(step2_result.allocation, <<i, j>>) = 1
     /\ HasStep3 =>
          \A i \in SKUs :
            /\ Get(step3_result.allocation, <<i, j>>) = Min(A[i], c)
            /\ A[i] - SkuTotal(step3_result.allocation, i)
                 = A[i] - Min(A[i], c)

\* C15 (as claimed): with a single target store of capacity c and SKUs of
\* supply s >= 1 each, Step 1 marks at most 1 unit per SKU, after Step 2 the
\* store holds exactly 1 unit of every SKU, and after Step 3 min(s, c).
C15_SingleStoreAnyCapacity == SingleStoreCase => SingleStoreOutcome

\* C15 (amended): the same for a single target store of capacity c >= 1.
C15_SingleStorePositiveCapacity ==
  (SingleStoreCase
     /\ LimitOf(store_allocation_limits, target_stores[1]) >= 1)
    => SingleStoreOutcome

\* a finished run with one store of capacity 2 and two or more SKUs of
\* supply 3: Step 3 has topped each up to 2 and 1 unit of each is left
C15_Witness ==
  /\ pc = "STEP3_DONE"
  /\ SingleStoreCase
  /\ Cardinality(SKUs) >= 2
  /\ LimitOf(store_allocation_limits, target_stores[1]) = 2
  /\ \A i \in SKUs :
       /\ A[i] = 3
       /\ Get(step2_result.allocation, <<i, target_stores[1]>>) = 1
       /\ Get(step3_result.allocation, <<i, target_stores[1]>>) = 2

ScarceSet == Range(scarce_skus)
AbundantSet == Range(abundant_skus)
Classified == classifier_pc = "CLASSIFIED"

\* the SKUs whose supply is below the number of target stores
BelowStoreCount == {i \in SKUs : A[i] < Len(target_stores)}

\* C16 (as claimed): the scarce set contains every basic-scarce SKU and is
\* closed under the relation: every SKU related to any SKU of the scarce set,
\* also to one that is scarce only by propagation, is in the scarce set.
C16_ScarceIsClosed ==
  Classified =>
    /\ BelowStoreCount \subseteq ScarceSet
    /\ \A x \in ScarceSet : \A y \in SKUs : Related(x, y) => y \in ScarceSet

\* C16 (amended): the scarce set is the basic-scarce set together with the
\* SKUs related to a basic-scarce SKU, and nothing else: a SKU related only to
\* a SKU that is scarce by propagation is not in it.
C16_ScarceIsOneStep ==
  Classified =>
    ScarceSet = BelowStoreCount
                  \cup {y \in SKUs : \E x \in BelowStoreCount : Related(x, y)}

\* on the full grid one SKU is basic-scarce, the two SKUs of its row and
\* column are scarce by propagation, and the SKU opposite to it is abundant
C16_Witness ==
  /\ Classified
  /\ SKUs = 1 .. NumGridSKUs
  /\ Cardinality(BelowStoreCount) = 1
  /\ Cardinality(ScarceSet) = 3
  /\ \E y \in AbundantSet : \E x \in ScarceSet : Related(x, y)

\* C17: a SKU is basic-scarce exactly when its supply is strictly less than
\* the number of target stores, and every SKU that shares the colour (with a
\* different size) or the size (with a different colour) of a basic-scarce
\* SKU is returned as scarce, whatever its own supply.
C17_BasicScarceAndRelatives ==
  Classified =>
    /\ \A i \in SKUs :
         i \in Range(basic_scarce) <=> A[i] < Len(target_stores)
    /\ \A x \in SKUs : \A y \in SKUs :
         (A[x] < Len(target_stores) /\ Related(x, y)) => y \in ScarceSet

\* a SKU with supply below the store count has made scarce a SKU of its
\* colour and a SKU of its size that both have supply to spare, and a SKU
\* with supply equal to the store count is not basic-scarce
C17_Witness ==
  /\ Classified
  /\ \E x, y, z \in SKUs :
       /\ A[x] < Len(target_stores)
       /\ ColorOf(y) = ColorOf(x) /\ SizeOf(y) # SizeOf(x)
       /\ SizeOf(z) = SizeOf(x) /\ ColorOf(z) # ColorOf(x)
       /\ A[y] > Len(target_stores)
       /\ A[z] = Len(target_stores)
       /\ {y, z} \subseteq ScarceSet
       /\ z \notin Range(basic_scarce)

NoDuplicates(s) == \A m, n \in DOMAIN s : m # n => s[m] # s[n]

\* C18: the scarce and abundant lists are disjoint, hold no SKU twice, and
\* together hold exactly the SKUs of the supply map; when no SKU has supply
\* below the number of target stores the scarce list is empty.
C18_Partition ==
  Classified =>
    /\ ScarceSet \cap AbundantSet = {}
    /\ NoDuplicates(scarce_skus)
    /\ NoDuplicates(abundant_skus)
    /\ ScarceSet \cup AbundantSet = SKUs
    /\ Len(scarce_skus) + Len(abundant_skus) = Cardinality(SKUs)
    /\ BelowStoreCount = {} => scarce_skus = <<>>

\* a classification with several scarce SKUs, one of them by propagation,
\* and an abundant SKU
C18_Witness ==
  /\ Classified
  /\ Len(scarce_skus) >= 2
  /\ Len(abundant_skus) >= 1
  /\ \E n \in DOMAIN scarce_skus : A[scarce_skus[n]] >= Len(target_stores)

LimitsCreated == tier_pc = "CREATED"

\* the tier the thresholds 0.3 n and 0.5 n give index i of n stores
TierByShare(i, n) ==
  IF 10 * i < 3 * n THEN "TIER_1_HIGH"
  ELSE IF 2 * i < n THEN "TIER_2_MEDIUM"
  ELSE "TIER_3_LOW"

\* C19: of n ranked stores the store at index i is in tier 1 iff i < 0.3 n,
\* in tier 2 iff 0.3 n <= i < 0.5 n and in tier 3 otherwise; the per-tier
\* store counts sum to n, create_store_allocation_limits gives every store
\* the capacity of its tier, and get_store_tier_info reports that tier.
C19_TierByIndex ==
  LET n == Len(target_stores) IN
  /\ LimitsCreated =>
       /\ DOMAIN store_allocation_limits = TargetSet(target_stores)
       /\ \A i \in 0 .. (n - 1) :
            /\ GetStoreTier(i, n) = TierByShare(i, n)
            /\ store_allocation_limits[target_stores[i + 1]]
                 = TierConfig[TierByShare(i, n)].max_sku_limit
       /\ \A t \in Range(tier_names) :
            tier_counts[t]
              = Cardinality({i \in 0 .. (n - 1) : TierByShare(i, n) = t})
       /\ tier_counts["TIER_1_HIGH"] + tier_counts["TIER_2_MEDIUM"]
            + tier_counts["TIER_3_LOW"] = n
  /\ (lookup.op = "get_store_tier_info" /\ lookup.result.outcome = "returned")
       => \E i \in 0 .. (n - 1) :
            /\ target_stores[i + 1] = lookup.store
            /\ lookup.result.tier_name = TierByShare(i, n)
            /\ lookup.result.max_sku_limit
                 = TierConfig[TierByShare(i, n)].max_sku_limit

\* limits were created for ten stores, where both thresholds fall on an
\* index: three stores of capacity 3, two of capacity 2, five of capacity 1,
\* and the store at the first threshold was looked up
C19_Witness ==
  /\ LimitsCreated
  /\ Len(target_stores) = 10
  /\ tier_counts = [t \in Range(tier_names) |->
                      IF t = "TIER_1_HIGH" THEN 3
                      ELSE IF t = "TIER_2_MEDIUM" THEN 2 ELSE 5]
  /\ store_allocation_limits[target_stores[3]] = 3
  /\ store_allocation_limits[target_stores[4]] = 2
  /\ store_allocation_limits[target_stores[6]] = 1
  /\ lookup.op = "get_store_tier_info"
  /\ lookup.store = target_stores[4]
  /\ lookup.result.outcome = "returned"
  /\ lookup.result.tier_name = "TIER_2_MEDIUM"

\* C20 (as claimed): every tier lookup by store id, get_store_tier_info and
\* the per-SKU lookups alike, raises an error when the store is not in the
\* ranked store list it searches, and never returns a tier for it.
C20_UnknownStoreRaises ==
  (lookup.op # "none" /\ lookup.store \notin Range(lookup.ranked))
    => lookup.result.outcome = "raised"

\* C21 (as claimed): the result of a run that failed at Step 1 has status
\* 'failed', names the failing stage, and carries the solver status code: it
\* differs from the result the run would have returned for any other
\* non-optimal solver status (infeasible, unbounded, not solved).
C21_FailureCarriesStatusCode ==
  pc = "STEP1_FAILED" =>
    /\ result.status = "failed"
    /\ result.step = "1"
    /\ \A st \in LpStatuses :
         (st # LpStatusOptimal /\ st # solver_status)
           => Step1FailureResult(st) # result

\* C22: the writes of Step 2 and Step 3 leave the earlier snapshots as they
\* were: step1_allocation stays the Step 1 allocation (quantity-1 pairs
\* only), allocation_after_step2 stays the allocation Step 2 ended with, and
\* allocation_after_step3 is the allocation Step 3 ended with.
C22_SnapshotsUntouched ==
  /\ HasStep1 =>
       /\ step1_allocation = step1_result.allocation
       /\ \A k \in DOMAIN step1_allocation : step1_allocation[k] = 1
  /\ HasStep2 => allocation_after_step2 = step2_result.allocation
  /\ HasStep3 => allocation_after_step3 = step3_result.allocation

\* a finished run in which Step 2 added a pair of its own and Step 3 raised
\* a pair that Step 1 had marked, so that all three snapshots differ
C22_Witness ==
  /\ pc = "STEP3_DONE"
  /\ \E k \in DOMAIN allocation_after_step2 : k \notin DOMAIN step1_allocation
  /\ \E k \in DOMAIN step1_allocation :
       /\ allocation_after_step2[k] = 1
       /\ allocation_after_step3[k] > 1

\* the units of an allocation, pair by pair
Units(alloc) == SumOver(alloc, DOMAIN alloc)

\* C23: the diagnostics count what was placed: 'combinations' is the number
\* of pairs of the Step 1 allocation, the additional_allocation of Step 2 and
\* of Step 3 is the growth of the total in that step, and total_allocated is
\* the sum of the three.
C23_DiagnosticsCountPlacedUnits ==
  /\ HasStep1 =>
       step1_result.combinations
         = Cardinality(DOMAIN step1_result.allocation)
  /\ HasStep2 =>
       /\ step2_result.additional_allocation
            = Units(step2_result.allocation) - Units(step1_result.allocation)
       /\ step2_additional_allocation = step2_result.additional_allocation
  /\ HasStep3 =>
       /\ step3_result.additional_allocation
            = Units(step3_result.allocation) - Units(step2_result.allocation)
       /\ step3_additional_allocation = step3_result.additional_allocation
  /\ pc = "STEP3_DONE" =>
       /\ result.total_allocated = Units(result.final_allocation)
       /\ result.step1_combinations = step1_result.combinations
       /\ result.total_allocated
            = result.step1_combinations + result.step2_additional
                + result.step3_additional

\* a finished run whose three diagnostics are all positive and in which a
\* pair holds more than one unit, so that units and pairs differ
C23_Witness ==
  /\ pc = "STEP3_DONE"
  /\ result.step1_combinations > 0
  /\ result.step2_additional > 0
  /\ result.step3_additional > 0
  /\ \E k \in DOMAIN result.final_allocation : result.final_allocation[k] > 1

\* C24: in every feasible solution of the Step 1 model, for every target
\* store, the indicator of a colour is 1 exactly when a SKU of that colour
\* is assigned to the store, colorCoverage of the store is the number of
\* distinct colours assigned to it and is at most the number of colours; the
\* same holds for sizes.
C24_IndicatorsExact ==
  step1_feasible = "FEASIBLE" =>
    \A j \in TargetSet(target_stores) :
      /\ \A c \in Colors(SKUs) :
           color_binary[<<c, j>>] = 1
             <=> \E i \in SKUs :
                   ColorOf(i) = c /\ <<i, j>> \in selected_combinations
      /\ color_coverage[j]
           = Cardinality({ColorOf(i) : i \in AssignedSKUs(j)})
      /\ color_coverage[j] <= Cardinality(Colors(SKUs))
      /\ color_coverage[j] = ColorCoverage(selected_combinations, SKUs, j)
      /\ \A z \in Sizes(SKUs) :
           size_binary[<<z, j>>] = 1
             <=> \E i \in SKUs :
                   SizeOf(i) = z /\ <<i, j>> \in selected_combinations
      /\ size_coverage[j]
           = Cardinality({SizeOf(i) : i \in AssignedSKUs(j)})
      /\ size_coverage[j] <= Cardinality(Sizes(SKUs))
      /\ size_coverage[j] = SizeCoverage(selected_combinations, SKUs, j)

\* a feasible solution over three SKUs that assigns a store one of the two
\* colours and one of the two sizes
C24_Witness ==
  /\ step1_feasible = "FEASIBLE"
  /\ Cardinality(SKUs) = 3
  /\ \E j \in TargetSet(target_stores) :
       /\ color_coverage[j] = 1
       /\ size_coverage[j] = 1
       /\ \E c \in Colors(SKUs) : color_binary[<<c, j>>] = 0

\* Step 2 certainly looks up the capacity of store j for SKU i: the store
\* lacks the SKU after Step 1 and the remaining supply covers every store
\* that lacks it, so the loop reaches j
Step2LooksUp(i, j) ==
  /\ step1_result # NoResult
  /\ step1_result.status = "success"
  /\ Get(step1_result.allocation, <<i, j>>) = 0
  /\ A[i] - AllocatedQuantity(step1_result.allocation, i, target_stores)
       >= Len(UnfilledStores(step1_result.allocation, i, target_stores))

\* C25 (as claimed): when Step 2 looks up the capacity of a target store
\* that has no entry in store_allocation_limits, the pass fails with an
\* error: it does not return a successful result and the pipeline does not
\* complete.
C25_MissingEntryFailsFast ==
  (\E i \in SKUs, j \in TargetSet(target_stores) :
     /\ store_allocation_limits[j] = NoEntry
     /\ Step2LooksUp(i, j))
    => /\ step2_result.status # "success"
       /\ pc # "STEP3_DONE"

\* stores of larger score are served first by Step 2: whenever store b gets
\* a unit of SKU i, every store of strictly larger score that lacked the SKU
\* and has capacity for one unit got its unit too
Step2ServesByScore ==
  \A i \in SKUs : \A a, b \in TargetSet(target_stores) :
    (/\ Get(step2_result.allocation, <<i, b>>)
          > Get(step1_result.allocation, <<i, b>>)
     /\ Get(weights2, a) > Get(weights2, b)
     /\ Get(step1_result.allocation, <<i, a>>) = 0
     /\ LimitOf(store_allocation_limits, a) >= 1)
      => Get(step2_result.allocation, <<i, a>>)
           > Get(step1_result.allocation, <<i, a>>)

\* stores of larger score are filled first by Step 3: whenever store b gets
\* units of SKU i, every store of strictly larger score holds exactly its
\* capacity of the SKU
Step3ServesByScore ==
  \A i \in SKUs : \A a, b \in TargetSet(target_stores) :
    (/\ Get(step3_result.allocation, <<i, b>>)
          > Get(step2_result.allocation, <<i, b>>)
     /\ Get(weights3, a) > Get(weights3, b))
      => Get(step3_result.allocation, <<i, a>>)
           = LimitOf(store_allocation_limits, a)

\* C26 (as claimed): both greedy passes serve stores in descending priority
\* score: in Step 2 a store of strictly higher score that lacked the SKU and
\* has capacity at least 1 receives a unit whenever a lower store does; in
\* Step 3 a store of strictly higher score holds exactly its capacity of the
\* SKU whenever a lower store receives units.
C26_DescendingScoreService ==
  /\ HasStep2 => Step2ServesByScore
  /\ HasStep3 => Step3ServesByScore

\* every quantity of an allocation is 0 or 1
Binary(alloc) == \A k \in DOMAIN alloc : alloc[k] \in {0, 1}

\* C27: Step 2 keeps the allocation binary: it adds a unit only to a
\* (SKU, store) pair whose quantity is 0 and raises it to exactly 1, so in
\* the snapshot after Step 2 every quantity is 0 or 1, and a quantity above
\* 1 exists only once Step 3 has run.
C27_Step2KeepsBinary ==
  /\ HasStep2 =>
       /\ Binary(step2_result.allocation)
       /\ Binary(allocation_after_step2)
       /\ allocation_after_step2 = step2_result.allocation
       /\ \A k \in DOMAIN step2_result.allocation :
            step2_result.allocation[k] # Get(step1_result.allocation, k)
              => /\ Get(step1_result.allocation, k) = 0
                 /\ step2_result.allocation[k] = 1
  /\ (\E k \in DOMAIN final_allocation : final_allocation[k] > 1)
       => pc = "STEP3_DONE"

\* Step 2 has ended with supply to spare for a SKU: a store of capacity 2
\* that Step 1 had served still holds one unit, and another store of
\* capacity 2 was raised from none to one
C27_Witness ==
  /\ pc = "STEP2_DONE"
  /\ \E i \in SKUs : \E a, b \in TargetSet(target_stores) :
       /\ SkuTotal(step2_result.allocation, i) < A[i]
       /\ LimitOf(store_allocation_limits, a) = 2
       /\ LimitOf(store_allocation_limits, b) = 2
       /\ Get(step1_result.allocation, <<i, a>>) = 1
       /\ Get(step2_result.allocation, <<i, a>>) = 1
       /\ Get(step1_result.allocation, <<i, b>>) = 0
       /\ Get(step2_result.allocation, <<i, b>>) = 1

\* C28 (as claimed): the amount finally allocated does not depend on the
\* store ordering: for every SKU the total allocated after Step 3 equals
\* min(supply, sum of the capacities of the target stores), for every Step 1
\* solution, every priority_temperature and every random draw.
C28_TotalIndependentOfOrder ==
  HasStep3 =>
    \A i \in SKUs :
      SkuTotal(step3_result.allocation, i)
        = Min(A[i], TotalCapacity(target_stores, store_allocation_limits))

\* C29 (as claimed): when the most recent call of optimize_three_step on an
\* instance failed at Step 1, the instance exposes no allocation:
\* get_final_allocation() is empty and the snapshots step1_allocation,
\* allocation_after_step2 and allocation_after_step3 hold nothing of an
\* earlier call.
C29_NoStaleAllocationAfterFailure ==
  pc = "STEP1_FAILED" =>
    /\ final_allocation = EmptyDict
    /\ step1_allocation = EmptyDict
    /\ allocation_after_step2 = EmptyDict
    /\ allocation_after_step3 = EmptyDict

\* C30: GreedyAllocator conserves supply: after each of its phases, for
\* every SKU, current_supply is not negative and current_supply plus the
\* units of the SKU in final_allocation is the supply A of the SKU; and no
\* (SKU, store) quantity exceeds the tier limit of the store.
C30_GreedyConservesSupply ==
  greedy_pc \in {"PRIORITY_DONE", "ADDITIONAL_DONE", "DONE"} =>
    /\ DOMAIN current_supply = SKUs
    /\ \A i \in SKUs :
         /\ current_supply[i] >= 0
         /\ current_supply[i] + SkuTotal(final_allocation, i) = A[i]
    /\ \A k \in DOMAIN final_allocation :
         /\ k[1] \in SKUs
         /\ k[2] \in TargetSet(target_stores)
         /\ final_allocation[k]
              <= GetStoreTierInfo(k[2], target_stores).max_sku_limit

\* a finished run over three stores, one per tier: a scarce SKU marked by
\* Step 1 holds its unit, an abundant SKU was raised to the limit 3 of the
\* first store and is out of supply, and the last store holds one unit
C30_Witness ==
  /\ greedy_pc = "DONE"
  /\ Len(target_stores) = 3
  /\ \E k \in b_hat : Get(final_allocation, k) >= 1
  /\ \E i \in Range(abundant_skus) :
       /\ Get(final_allocation, <<i, 1>>) = 3
       /\ current_supply[i] = 0
  /\ \E i \in SKUs : Get(final_allocation, <<i, 3>>) = 1
====
